---- MODULE Spec2Model ----
(***************************************************************************)
(* alertmatter: the Alertmanager -> Mattermost webhook bridge.             *)
(*                                                                         *)
(* handleAlert receives one HTTP request, validates it, decodes the        *)
(* Alertmanager payload, formats it with prepareMessage and forwards it    *)
(* with one http.Post (sendToMattermost).                                  *)
(*                                                                         *)
(* Text the code inspects (alert statuses, annotation and label keys) is   *)
(* a sequence of byte values, so that ==, sort.Strings, strings.ToUpper    *)
(* and cases.Title are computed as the code computes them.  Text the code  *)
(* only copies (values, timestamps, URLs, channel) is a TLA+ string.       *)
(* What Go leaves open is an explicit input: the iteration order of a map  *)
(* range and the two clock readings of time.Since(time.Now()).             *)
(***************************************************************************)
EXTENDS Integers, Sequences, FiniteSets, TLC

VARIABLES request, channel, payload, mmMessage, err, posts, response, runs

vars == <<request, channel, payload, mmMessage, err, posts, response, runs>>

----------------------------------------------------------------------------
(* Bounds *)

\* most alerts in a notification handed to prepareMessage
MaxAlerts == 2
\* most alerts in the body of a request handed to handleAlert
MaxBodyAlerts == 1
\* how many times the same notification is formatted
MaxRuns == 2

----------------------------------------------------------------------------
(* Byte strings *)

s_firing   == <<102, 105, 114, 105, 110, 103>>            \* "firing"
s_resolved == <<114, 101, 115, 111, 108, 118, 101, 100>>  \* "resolved"
s_FIRING   == <<70, 73, 82, 73, 78, 71>>                  \* "FIRING"
s_empty    == <<>>                                        \* ""
k_sum      == <<115, 117, 109>>                           \* "sum"
k_Zone     == <<90, 111, 110, 101>>                       \* "Zone"
k_job      == <<106, 111, 98>>                            \* "job"
k_env      == <<101, 110, 118>>                           \* "env"

IsLower(c) == c >= 97 /\ c <= 122

UpperChar(c) == IF IsLower(c) THEN c - 32 ELSE c

\* strings.ToUpper
ToUpper(s) == [i \in 1..Len(s) |-> UpperChar(s[i])]

\* cases.Title(language.Und, cases.NoLower): the first letter of every word
\* is upper-cased, the rest is left as it is
TitleCase(s) ==
    [i \in 1..Len(s) |->
        IF i = 1 \/ s[i - 1] = 32 THEN UpperChar(s[i]) ELSE s[i]]

\* Go's < on strings: byte-wise lexicographic
RECURSIVE LexLess(_, _)
LexLess(a, b) ==
    IF b = <<>> THEN FALSE
    ELSE IF a = <<>> THEN TRUE
    ELSE IF Head(a) < Head(b) THEN TRUE
    ELSE IF Head(a) > Head(b) THEN FALSE
    ELSE LexLess(Tail(a), Tail(b))

RECURSIVE Insert(_, _)
Insert(k, s) ==
    IF s = <<>> THEN <<k>>
    ELSE IF LexLess(Head(s), k) THEN <<Head(s)>> \o Insert(k, Tail(s))
    ELSE <<k>> \o s

\* sort.Strings
RECURSIVE SortStrings(_)
SortStrings(s) ==
    IF s = <<>> THEN <<>> ELSE Insert(Head(s), SortStrings(Tail(s)))

\* the orders in which a range over a map with key set S can visit the keys
Perms(S) ==
    {p \in [1..Cardinality(S) -> S] :
        \A i, j \in 1..Cardinality(S) : i # j => p[i] # p[j]}

----------------------------------------------------------------------------
(* Constants of the program *)

colorFiring   == "#FF0000"
colorResolved == "#008000"
colorExpired  == "#F0F8FF"

StatusOK                  == 200
StatusBadRequest          == 400
StatusMethodNotAllowed    == 405
StatusInternalServerError == 500

\* the -webhook-url flag
mattermostURL == "http://mattermost.internal"

----------------------------------------------------------------------------
(* Data model *)

Statuses == {s_firing, s_resolved, s_FIRING, s_empty}

\* annotation maps: none, and two keys whose sorted order is Zone < sum
AnnotationMaps ==
    { [k \in {} |-> ""],
      [k \in {k_sum, k_Zone} |-> IF k = k_sum THEN "CPU high" ELSE "eu-1"] }

\* label maps: one label, and two labels
LabelMaps ==
    { [k \in {k_job} |-> "node"],
      [k \in {k_job, k_env} |-> IF k = k_job THEN "node" ELSE "prod"] }

\* type Alert
Alerts ==
    [ Status       : Statuses,
      Labels       : LabelMaps,
      Annotations  : AnnotationMaps,
      StartsAt     : {"2024-01-01T00:00:00Z"},
      EndsAt       : {"2024-01-01T01:00:00Z"},
      GeneratorURL : {"http://x"},
      Fingerprint  : {"abc"} ]

SeqsUpTo(S, n) == UNION {[1..m -> S] : m \in 0..n}

\* type AlertmanagerPayload (the fields the program reads)
Payloads(n) ==
    [ Receiver    : {"r1"},
      Status      : {s_firing},
      Alerts      : SeqsUpTo(Alerts, n),
      ExternalURL : {"http://am"} ]

\* var payload AlertmanagerPayload
ZeroPayload ==
    [Receiver |-> "", Status |-> s_empty, Alerts |-> <<>>, ExternalURL |-> ""]

\* var mmMessage MattermostMessage
ZeroMessage ==
    [Text |-> "", Username |-> "", IconEmoji |-> "", Attachments |-> <<>>,
     Channel |-> ""]

\* error values; nil is NoError
NoError == [failed |-> FALSE, msg |-> ""]
Error(m) == [failed |-> TRUE, msg |-> m]

----------------------------------------------------------------------------
(* What Go leaves open while one alert is formatted *)

\* nanoseconds that time.Since(time.Now()) can measure
ElapsedNs == {150, 1500}

\* readings of the clock and visiting orders of the two maps of an alert
Envs(alert) ==
    [ annOrder   : Perms(DOMAIN alert.Annotations),
      labelOrder : Perms(DOMAIN alert.Labels),
      sinceStart : ElapsedNs,
      sinceEnd   : IF alert.Status = s_resolved THEN ElapsedNs ELSE {0} ]

RECURSIVE EnvSeqs(_)
EnvSeqs(alerts) ==
    IF alerts = <<>> THEN {<<>>}
    ELSE {<<e>> \o rest : e \in Envs(Head(alerts)), rest \in EnvSeqs(Tail(alerts))}

\* durafmt.Parse(d).LimitFirstN(2).String() for d below one millisecond:
\* units below a microsecond are dropped
DurafmtString(ns) ==
    LET us == ns \div 1000
    IN  IF us = 0 THEN ""
        ELSE IF us = 1 THEN "1 microsecond"
        ELSE ToString(us) \o " microseconds"

----------------------------------------------------------------------------
(* Formatting *)

setColor_foldCase(status) ==
    IF ToUpper(status) = ToUpper(s_firing) THEN colorFiring
    ELSE IF ToUpper(status) = ToUpper(s_resolved) THEN colorResolved
    ELSE colorExpired

setColor(status) ==
    IF status = s_firing THEN colorFiring
    ELSE IF status = s_resolved THEN colorResolved
    ELSE colorExpired

\* one Sprintf that extends msg: the format, the key it prints and the
\* copied arguments
KeyLine(k, v) == [fmt |-> "**%s:** %s\n", key |-> TitleCase(k), args |-> <<v>>]

StartedLine(t, ago) ==
    [fmt |-> "**Started at:** %s (%s ago)\n", key |-> <<>>, args |-> <<t, ago>>]

EndedLine(t, ago) ==
    [fmt |-> "**Ended at:** %s (%s ago)\n", key |-> <<>>, args |-> <<t, ago>>]

SourceLine(generatorURL, externalURL, receiver) ==
    [fmt  |-> "Generated by a [Prometheus Alert](%s) and sent to the [Alertmanager](%s) '%s' receiver.",
     key  |-> <<>>,
     args |-> <<generatorURL, externalURL, receiver>>]

statusMsg(alert) ==
    IF alert.Status = s_firing
    THEN [fmt |-> ":fire: %s :fire:", text |-> ToUpper(alert.Status)]
    ELSE [fmt |-> "%s", text |-> ToUpper(alert.Status)]

annotationKeys_unsorted(alert, order) == order

\* the keys of alert.Annotations, collected in the order the range visits
\* them and then sorted
annotationKeys(alert, order) == SortStrings(order)

annotationLines(alert, order) ==
    LET keys == annotationKeys(alert, order)
    IN  [i \in 1..Len(keys) |-> KeyLine(keys[i], alert.Annotations[keys[i]])]

labelLines(alert, order) ==
    [i \in 1..Len(order) |-> KeyLine(order[i], alert.Labels[order[i]])]

convertAlertToFields(alert, externalURL, receiver, env) ==
    LET msg1 == annotationLines(alert, env.annOrder)
        msg2 == Append(msg1,
                    StartedLine(alert.StartsAt, DurafmtString(env.sinceStart)))
        msg3 == IF alert.Status = s_resolved
                THEN Append(msg2,
                        EndedLine(alert.EndsAt, DurafmtString(env.sinceEnd)))
                ELSE msg2
        msg4 == Append(msg3,
                    SourceLine(alert.GeneratorURL, externalURL, receiver))
    IN  << [Title |-> statusMsg(alert), Value |-> msg4, Short |-> TRUE],
           [Title |-> [fmt |-> "", text |-> <<>>],
            Value |-> labelLines(alert, env.labelOrder),
            Short |-> TRUE] >>

Attachment(alert, externalURL, receiver, env) ==
    [Color     |-> setColor(alert.Status),
     Text      |-> "",
     Title     |-> "",
     TitleLink |-> "",
     Fields    |-> convertAlertToFields(alert, externalURL, receiver, env)]

prepareMessage_prepend(p, ch, envs) ==
    LET n == Len(p.Alerts)
    IN  [Text        |-> "",
         Username    |-> "alertmatter",
         IconEmoji   |-> ":bell:",
         Attachments |-> [i \in 1..n |->
                            Attachment(p.Alerts[n + 1 - i], p.ExternalURL,
                                       p.Receiver, envs[n + 1 - i])],
         Channel     |-> ch]

prepareMessage(p, ch, envs) ==
    [Text        |-> "",
     Username    |-> "alertmatter",
     IconEmoji   |-> ":bell:",
     Attachments |-> [i \in 1..Len(p.Alerts) |->
                        Attachment(p.Alerts[i], p.ExternalURL, p.Receiver,
                                   envs[i])],
     Channel     |-> ch]

\* json.Marshal of a MattermostMessage
MarshalField(f) == [title |-> f.Title, value |-> f.Value, short |-> f.Short]

MarshalAttachment(a) ==
    [color      |-> a.Color,
     text       |-> a.Text,
     title      |-> a.Title,
     title_link |-> a.TitleLink,
     fields     |-> [i \in 1..Len(a.Fields) |-> MarshalField(a.Fields[i])]]

Marshal(m) ==
    [text        |-> m.Text,
     username    |-> m.Username,
     icon_emoji  |-> m.IconEmoji,
     attachments |-> [i \in 1..Len(m.Attachments) |->
                        MarshalAttachment(m.Attachments[i])],
     channel     |-> m.Channel]

----------------------------------------------------------------------------
(* The HTTP side *)

Methods == {"POST", "GET"}

Channels == {"", "ops"}

\* what the bytes of a request body are: nothing, broken JSON, JSON of the
\* wrong shape, or the JSON of a payload
Bodies ==
    [kind : {"empty", "syntax", "type"}, payload : {ZeroPayload}]
        \cup [kind : {"json"}, payload : Payloads(MaxBodyAlerts)]

Requests == [method : Methods, channel : Channels, body : Bodies]

\* no request received yet
NoRequest ==
    [method |-> "", channel |-> "", body |-> [kind |-> "empty", payload |-> ZeroPayload]]

\* json.NewDecoder(r.Body).Decode(&payload)
Decode(body) ==
    IF body.kind = "json" THEN [err |-> NoError, payload |-> body.payload]
    ELSE IF body.kind = "empty" THEN [err |-> Error("EOF"), payload |-> ZeroPayload]
    ELSE IF body.kind = "syntax"
    THEN [err     |-> Error("invalid character 'x' looking for beginning of value"),
          payload |-> ZeroPayload]
    ELSE [err     |-> Error("json: cannot unmarshal string into Go struct field AlertmanagerPayload.alerts of type []main.Alert"),
          payload |-> ZeroPayload]

\* how the destination answers one POST: the transport fails, or a response
\* with a status comes back
Replies ==
    { [transport |-> "Post \"http://mattermost.internal\": dial tcp: connection refused",
       code |-> 0, status |-> ""],
      [transport |-> "", code |-> 200, status |-> "200 OK"],
      [transport |-> "", code |-> 201, status |-> "201 Created"],
      [transport |-> "", code |-> 204, status |-> "204 No Content"],
      [transport |-> "", code |-> 404, status |-> "404 Not Found"],
      [transport |-> "", code |-> 500, status |-> "500 Internal Server Error"] }

\* one http.Post and the answer it got
Post(url, body, reply) ==
    [method      |-> "POST",
     url         |-> url,
     contentType |-> "application/json",
     body        |-> body,
     reply       |-> reply]

sendToMattermost_retry(m, url, reply) ==
    LET post == Post(url, Marshal(m), reply)
    IN  IF reply.transport # ""
        THEN [err |-> Error(reply.transport), posts |-> <<post, post>>]
        ELSE IF reply.code # StatusOK
        THEN [err   |-> Error("received non-OK response from Mattermost: " \o reply.status),
              posts |-> <<post>>]
        ELSE [err |-> NoError, posts |-> <<post>>]

sendToMattermost_2xx(m, url, reply) ==
    LET post == Post(url, Marshal(m), reply)
    IN  IF reply.transport # ""
        THEN [err |-> Error(reply.transport), posts |-> <<post>>]
        ELSE IF reply.code < 200 \/ reply.code > 299
        THEN [err   |-> Error("received non-OK response from Mattermost: " \o reply.status),
              posts |-> <<post>>]
        ELSE [err |-> NoError, posts |-> <<post>>]

\* json.Marshal cannot fail on a MattermostMessage (strings, bools, slices)
sendToMattermost(m, url, reply) ==
    LET post == Post(url, Marshal(m), reply)
    IN  IF reply.transport # ""
        THEN [err |-> Error(reply.transport), posts |-> <<post>>]
        ELSE IF reply.code # StatusOK
        THEN [err   |-> Error("received non-OK response from Mattermost: " \o reply.status),
              posts |-> <<post>>]
        ELSE [err |-> NoError, posts |-> <<post>>]

\* the response before the handler has written to it
NoResponse == [status |-> 0, body |-> ""]

\* http.Error
httpError(msg, code) == [status |-> code, body |-> msg \o "\n"]

respond_generic(e) ==
    IF e.failed
    THEN httpError("Internal Server Error", StatusInternalServerError)
    ELSE [status |-> StatusOK, body |-> ""]

\* the response after the forwarding attempt
respond(e) ==
    IF e.failed
    THEN httpError(e.msg, StatusInternalServerError)
    ELSE [status |-> StatusOK, body |-> ""]

\* the locals of handleAlert when it returns
Return(resp, ch, p, m, e, sent) ==
    [response |-> resp, channel |-> ch, payload |-> p, mmMessage |-> m,
     err |-> e, posts |-> sent]

\* handleAlert from the log line on: format, forward, respond
forward(p, ch, reply, envs) ==
    LET m    == prepareMessage(p, ch, envs)
        sent == sendToMattermost(m, mattermostURL, reply)
    IN  Return(respond(sent.err), ch, p, m, sent.err, sent.posts)

handleAlert_channelFirst(r, reply, envs) ==
    LET dec == Decode(r.body)
    IN  IF r.channel = ""
        THEN Return(httpError("channel query parameter is required", StatusBadRequest),
                    r.channel, ZeroPayload, ZeroMessage, NoError, <<>>)
        ELSE IF r.method # "POST"
        THEN Return(httpError("Method Not Allowed", StatusMethodNotAllowed),
                    "", ZeroPayload, ZeroMessage, NoError, <<>>)
        ELSE IF dec.err.failed
        THEN Return(httpError(dec.err.msg, StatusBadRequest),
                    r.channel, dec.payload, ZeroMessage, dec.err, <<>>)
        ELSE forward(dec.payload, r.channel, reply, envs)

handleAlert_decodeFirst(r, reply, envs) ==
    LET dec == Decode(r.body)
    IN  IF r.method # "POST"
        THEN Return(httpError("Method Not Allowed", StatusMethodNotAllowed),
                    "", ZeroPayload, ZeroMessage, NoError, <<>>)
        ELSE IF dec.err.failed
        THEN Return(httpError(dec.err.msg, StatusBadRequest),
                    "", dec.payload, ZeroMessage, dec.err, <<>>)
        ELSE IF r.channel = ""
        THEN Return(httpError("channel query parameter is required", StatusBadRequest),
                    r.channel, dec.payload, ZeroMessage, NoError, <<>>)
        ELSE forward(dec.payload, r.channel, reply, envs)

handleAlert_ignoreDecodeError(r, reply, envs) ==
    LET dec == Decode(r.body)
    IN  IF r.method # "POST"
        THEN Return(httpError("Method Not Allowed", StatusMethodNotAllowed),
                    "", ZeroPayload, ZeroMessage, NoError, <<>>)
        ELSE IF r.channel = ""
        THEN Return(httpError("channel query parameter is required", StatusBadRequest),
                    r.channel, ZeroPayload, ZeroMessage, NoError, <<>>)
        ELSE forward(dec.payload, r.channel, reply, envs)

handleAlert(r, reply, envs) ==
    LET dec == Decode(r.body)
    IN  IF r.method # "POST"
        THEN Return(httpError("Method Not Allowed", StatusMethodNotAllowed),
                    "", ZeroPayload, ZeroMessage, NoError, <<>>)
        ELSE IF r.channel = ""
        THEN Return(httpError("channel query parameter is required", StatusBadRequest),
                    r.channel, ZeroPayload, ZeroMessage, NoError, <<>>)
        ELSE IF dec.err.failed
        THEN Return(httpError(dec.err.msg, StatusBadRequest),
                    r.channel, dec.payload, ZeroMessage, dec.err, <<>>)
        ELSE forward(dec.payload, r.channel, reply, envs)

----------------------------------------------------------------------------
(* Spec: one request through handleAlert *)

Init ==
    /\ request \in Requests
    /\ channel = ""
    /\ payload = ZeroPayload
    /\ mmMessage = ZeroMessage
    /\ err = NoError
    /\ posts = <<>>
    /\ response = NoResponse
    /\ runs = 0

\* the server dispatches the request to handleAlert, which runs to its return
HandleAlert ==
    /\ runs = 0
    /\ \E reply \in Replies, envs \in EnvSeqs(Decode(request.body).payload.Alerts) :
          LET ret == handleAlert(request, reply, envs)
          IN  /\ response' = ret.response
              /\ channel' = ret.channel
              /\ payload' = ret.payload
              /\ mmMessage' = ret.mmMessage
              /\ err' = ret.err
              /\ posts' = ret.posts
    /\ runs' = 1
    /\ UNCHANGED request

Next == HandleAlert

Spec == Init /\ [][Next]_vars

----------------------------------------------------------------------------
(* SpecFormat: prepareMessage on a decoded notification, once;             *)
(* SpecTwice: the same notification formatted MaxRuns times                *)

FormatInit ==
    /\ request = NoRequest
    /\ channel \in Channels \ {""}
    /\ payload \in Payloads(MaxAlerts)
    /\ mmMessage = ZeroMessage
    /\ err = NoError
    /\ posts = <<>>
    /\ response = NoResponse
    /\ runs = 0

Format(limit) ==
    /\ runs < limit
    /\ \E envs \in EnvSeqs(payload.Alerts) :
          mmMessage' = prepareMessage(payload, channel, envs)
    /\ runs' = runs + 1
    /\ UNCHANGED <<request, channel, payload, err, posts, response>>

FormatOnce == Format(1)

FormatAgain == Format(MaxRuns)

SpecFormat == FormatInit /\ [][FormatOnce]_vars

SpecTwice == FormatInit /\ [][FormatAgain]_vars

----------------------------------------------------------------------------
(* Properties of handleAlert, under Spec *)

\* method POST, a channel, and a body that decodes
ValidRequest == 
    /\ request.method = "POST"
    /\ request.channel # ""
    /\ request.body.kind = "json"

Handled == runs = 1

\* C1: a valid request makes exactly one outbound POST to the configured
\* webhook URL while it is handled, never none and never two, also when the
\* attempt fails.
C1_ExactlyOnePost ==
    /\ ~Handled => posts = <<>>
    /\ Handled /\ ValidRequest =>
          /\ Len(posts) = 1
          /\ posts[1].method = "POST"
          /\ posts[1].url = "http://mattermost.internal"

C1_Witness ==
    /\ Handled /\ ValidRequest
    /\ Len(posts) = 1
    /\ posts[1].reply.transport # ""
    /\ response.status = 500

\* C3: a request whose method is not POST is answered 405 and makes no
\* outbound POST, whatever its channel and body; the body is not decoded.
C3_NonPostRejected ==
    Handled /\ request.method # "POST" =>
        /\ response.status = 405
        /\ posts = <<>>
        /\ payload = ZeroPayload

C3_Witness ==
    /\ Handled
    /\ request.method = "GET"
    /\ request.channel = ""
    /\ request.body.kind = "syntax"
    /\ response.status = 405

\* C4: a POST without a channel is answered 400 and makes no outbound POST;
\* the body is not decoded, so the answer is the same for a well-formed and
\* a malformed body.
C4_MissingChannelRejected ==
    Handled /\ request.method = "POST" /\ request.channel = "" =>
        /\ response = [status |-> 400,
                       body   |-> "channel query parameter is required\n"]
        /\ posts = <<>>
        /\ payload = ZeroPayload

C4_Witness ==
    /\ Handled
    /\ request.method = "POST"
    /\ request.channel = ""
    /\ request.body.kind = "empty"
    /\ response.status = 400

\* C5: a POST with a channel whose body does not decode is answered 400
\* with the decode error text and makes no outbound POST.
C5_MalformedBodyRejected ==
    Handled /\ request.method = "POST" /\ request.channel # ""
            /\ request.body.kind # "json" =>
        /\ err.failed
        /\ response = [status |-> 400, body |-> err.msg \o "\n"]
        /\ posts = <<>>

C5_Witness ==
    /\ Handled
    /\ request.method = "POST"
    /\ request.channel = "ops"
    /\ request.body.kind = "type"
    /\ response.status = 400
    /\ response.body # "channel query parameter is required\n"

\* C6: for a valid request the response follows the one forwarding attempt:
\* on an error it is 500 with the failure reason (for a non-200 answer the
\* reason ends with the destination's status text), otherwise it is 200
\* with an empty body.
C6_ResponseFollowsAttempt ==
    Handled /\ ValidRequest =>
        /\ Len(posts) = 1
        /\ LET reply == posts[1].reply
           IN  /\ reply.transport = "" /\ reply.code # 200 =>
                     response =
                        [status |-> 500,
                         body   |-> "received non-OK response from Mattermost: "
                                        \o reply.status \o "\n"]
               /\ reply.transport # "" =>
                     response = [status |-> 500, body |-> reply.transport \o "\n"]
               /\ err.failed => response.status = 500
               /\ ~err.failed => response = [status |-> 200, body |-> ""]
               /\ response.status \in {200, 500}

C6_Witness ==
    /\ Handled /\ ValidRequest
    /\ Len(posts) = 1
    /\ posts[1].reply.code = 404
    /\ response.body = "received non-OK response from Mattermost: 404 Not Found\n"

\* C7 as stated: sendToMattermost reports a failure exactly for a transport
\* error and for a response status outside 200..299.
C7_FailureIffNot2xx ==
    Handled /\ ValidRequest =>
        /\ Len(posts) = 1
        /\ LET reply == posts[1].reply
           IN  err.failed <=>
                 (reply.transport # "" \/ reply.code < 200 \/ reply.code > 299)

\* C7 as amended: sendToMattermost reports a failure exactly for a
\* transport error and for a response status other than 200; a 2xx status
\* other than 200 is reported as a failure too.
C7_FailureIffNot200 ==
    Handled /\ ValidRequest =>
        /\ Len(posts) = 1
        /\ LET reply == posts[1].reply
           IN  err.failed <=> (reply.transport # "" \/ reply.code # 200)

C7_Witness ==
    /\ Handled /\ ValidRequest
    /\ Len(posts) = 1
    /\ posts[1].reply.code = 204
    /\ err.failed

----------------------------------------------------------------------------
(* Properties of prepareMessage, under SpecFormat and SpecTwice *)

Formatted == runs >= 1

\* C2: a notification with N alerts gives a message with N attachments, and
\* the i-th attachment is built from the i-th alert: its colour is setColor
\* of that alert's status and its fields are that alert's fields.
C2_OneAttachmentPerAlert ==
    Formatted =>
        /\ Len(mmMessage.Attachments) = Len(payload.Alerts)
        /\ \A i \in 1..Len(payload.Alerts) :
              LET alert == payload.Alerts[i]
                  att   == mmMessage.Attachments[i]
              IN  /\ att.Color = setColor(alert.Status)
                  /\ \E e \in Envs(alert) :
                        att.Fields = convertAlertToFields(
                                        alert, payload.ExternalURL,
                                        payload.Receiver, e)

C2_Witness ==
    /\ Formatted
    /\ Len(payload.Alerts) = 2
    /\ Len(mmMessage.Attachments) = 2
    /\ payload.Alerts[1].Status = s_resolved
    /\ payload.Alerts[2].Status = s_firing
    /\ mmMessage.Attachments[1].Color = "#008000"
    /\ mmMessage.Attachments[2].Color = "#FF0000"

\* C8: formatting the same notification for the same channel twice gives
\* the same message JSON both times.
C8_FormattingDeterministic ==
    [][runs >= 1 /\ runs' = runs + 1 => Marshal(mmMessage') = Marshal(mmMessage)]_vars

\* C9: the primary field of every attachment starts with one line per
\* annotation key, in strictly ascending byte order of the keys, and all of
\* them come before the 'Started at' line.
C9_AnnotationsSorted ==
    Formatted =>
        /\ Len(mmMessage.Attachments) = Len(payload.Alerts)
        /\ \A i \in 1..Len(payload.Alerts) :
              LET alert == payload.Alerts[i]
                  value == mmMessage.Attachments[i].Fields[1].Value
                  keys  == DOMAIN alert.Annotations
                  n     == Cardinality(keys)
              IN  /\ Len(value) > n
                  /\ value[n + 1].fmt = "**Started at:** %s (%s ago)\n"
                  /\ \A j \in (n + 1)..Len(value) : value[j].fmt # "**%s:** %s\n"
                  /\ \E ks \in Perms(keys) :
                        /\ \A j \in 1..(n - 1) : LexLess(ks[j], ks[j + 1])
                        /\ \A j \in 1..n :
                              value[j] = [fmt  |-> "**%s:** %s\n",
                                          key  |-> TitleCase(ks[j]),
                                          args |-> <<alert.Annotations[ks[j]]>>]

C9_Witness ==
    /\ Formatted
    /\ Len(payload.Alerts) >= 1
    /\ DOMAIN payload.Alerts[1].Annotations = {k_sum, k_Zone}
    /\ payload.Alerts[1].Status = s_resolved
    /\ LET value == mmMessage.Attachments[1].Fields[1].Value
       IN  /\ Len(value) = 5
           /\ value[1].key = k_Zone
           /\ value[2].args = <<"CPU high">>
           /\ value[4].fmt = "**Ended at:** %s (%s ago)\n"

\* C10: the colour of an attachment is #FF0000 for status "firing", #008000
\* for "resolved" and #F0F8FF for every other status, "" and "FIRING"
\* included.
C10_ColorTotal ==
    Formatted =>
        /\ Len(mmMessage.Attachments) = Len(payload.Alerts)
        /\ \A i \in 1..Len(payload.Alerts) :
              LET status == payload.Alerts[i].Status
                  color  == mmMessage.Attachments[i].Color
              IN  /\ status = <<102, 105, 114, 105, 110, 103>> => color = "#FF0000"
                  /\ status = <<114, 101, 115, 111, 108, 118, 101, 100>> =>
                        color = "#008000"
                  /\ status \notin {<<102, 105, 114, 105, 110, 103>>,
                                    <<114, 101, 115, 111, 108, 118, 101, 100>>} =>
                        color = "#F0F8FF"

C10_Witness ==
    /\ Formatted
    /\ Len(payload.Alerts) = 2
    /\ payload.Alerts[1].Status = s_FIRING
    /\ payload.Alerts[2].Status = s_empty
    /\ mmMessage.Attachments[1].Color = "#F0F8FF"
    /\ mmMessage.Attachments[2].Color = "#F0F8FF"

====
